---- MODULE Spec2Model ----
(***************************************************************************)
(* The three Verilator simulation drivers of mlow-codec-ip:                *)
(*   formal_main                          src/formal/formal_main.cpp       *)
(*   verilator_tb_mlow_codec              src/tb/sv_tb/...codec.cpp        *)
(*   verilator_tb_mlow_codec_comprehensive                                 *)
(* Each main() is a straight-line program over a Verilated model and a VCD *)
(* trace sink.  One action models one statement (or one loop header) of a  *)
(* main(); pc is the position in that main().  The model under simulation  *)
(* and the trace sink are external: an eval() may raise the process-wide   *)
(* finish flag, open() and close() of the trace file may fail.             *)
(***************************************************************************)
EXTENDS Integers, Sequences, FiniteSets

(* ---- program constants ------------------------------------------------ *)
F_ResetCycles == 5
F_RunCycles == 200
T_ResetEvals == 10
T_RunBudget == 10000
C_Budget == 50000
W1Start == 10
W1End == 26
W1Base == 4660
W2Start == 50
W2End == 66
W2Base == 22136

Drivers == {"formal_main", "verilator_tb", "comprehensive"}

\* The input ports formal_main drives (formal_main.cpp:30-39, 43).
Ports ==
  {"reset_n_i", "clk_i", "audio_data_i", "audio_valid_i", "audio_ready_i",
   "frame_bus_ready_i", "frame_ready_i", "packet_ready_i", "encode_mode_i",
   "bitrate_sel_i", "bandwidth_sel_i"}

VARIABLES
  driver,      \* which main() is running
  vmTrace,     \* VM_TRACE defined at compile time (verilator_tb only)
  pc,          \* position in main()
  i,           \* the loop counter (i, or cycle in the comprehensive driver)
  ports,       \* the model's input ports, as last written by the driver
  assigned,    \* the ports the driver has written so far
  nWrites,     \* per port, the number of writes by the driver
  gotFinish,   \* Verilated::gotFinish()
  modelState,  \* "none", "live", "deleted"
  traceState,  \* "null" (no sink), "open", "openFailed", "closed",
               \* "closeFailed", "deleted"
  nEvals,      \* number of eval() calls so far
  seen,        \* the input ports as the last eval() saw them
  finishEval,  \* nEvals of the eval() that first raised gotFinish, 0 if none
  nChecks,     \* number of gotFinish() calls so far
  nDumps,      \* number of dump() calls so far
  lastTs,      \* timestamp of the last dump() call, -1 if none
  dirty,       \* an input port was written since the last eval()
  uncaptured,  \* the last eval() has not been followed by a dump() yet
  traceErr,    \* an open() or a close() of the trace file has failed
  nCloses,     \* number of close() calls on the trace sink so far
  nFinal,      \* number of final() calls so far
  finalAt,     \* <<traceState, nEvals>> at the final() call, <<>> if none
  exit,        \* <<>> while running, <<code>> once main() has returned
  reported     \* <<>>, or <<n>> once "completed after n cycles" is printed

vars ==
  <<driver, vmTrace, pc, i, ports, assigned, nWrites, gotFinish, modelState,
    traceState, traceErr, nCloses, nEvals, seen, finishEval, nChecks, nDumps, lastTs,
    dirty, uncaptured, nFinal, finalAt, exit, reported>>

modelVars == <<gotFinish, nEvals, seen, finishEval>>
portVars == <<ports, assigned, nWrites>>
dumpVars == <<nDumps, lastTs>>
obsVars == <<dirty, uncaptured>>
traceVars == <<traceState, traceErr, nCloses>>
endVars == <<nFinal, finalAt, exit, reported>>

(* ---- the operations on the external collaborators --------------------- *)

\* tb->port = v
WritePort(p, v) ==
  /\ ports' = [ports EXCEPT ![p] = v]
  /\ assigned' = assigned \cup {p}
  /\ nWrites' = [nWrites EXCEPT ![p] = @ + 1]

\* tb->eval(): the model sees the current inputs and may execute $finish.
EvalModel ==
  /\ modelState = "live"
  /\ nEvals' = nEvals + 1
  /\ seen' = ports
  /\ \E fin \in BOOLEAN :
       /\ gotFinish' = (gotFinish \/ fin)
       /\ finishEval' = IF ~gotFinish /\ fin THEN nEvals + 1 ELSE finishEval

\* trace->dump(ts)
DumpTrace(ts) ==
  /\ nDumps' = nDumps + 1
  /\ lastTs' = ts

\* trace->open(name): the file may or may not open.
OpenTrace ==
  \E ok \in BOOLEAN :
    /\ traceState' = IF ok THEN "open" ELSE "openFailed"
    /\ traceErr' = (traceErr \/ ~ok)
    /\ UNCHANGED nCloses

\* trace->close(): closing (flushing) an open file may fail.
CloseTrace ==
  \E ok \in BOOLEAN :
    /\ traceState' = IF traceState = "open" /\ ok THEN "closed" ELSE "closeFailed"
    /\ traceErr' = (traceErr \/ ~ok)
    /\ nCloses' = nCloses + 1

(* ---- formal_main ------------------------------------------------------ *)

\* Stimulus whose else branch also clears audio_data_i
Stimulus_ClearData(c) ==
  IF c >= W1Start /\ c < W1End
    THEN [valid |-> 1, drive |-> TRUE, data |-> W1Base + (c - W1Start)]
  ELSE IF c >= W2Start /\ c < W2End
    THEN [valid |-> 1, drive |-> TRUE, data |-> W2Base + (c - W2Start)]
  ELSE [valid |-> 0, drive |-> TRUE, data |-> 0]

\* Stimulus with the first window's end taken as inclusive (c <= 26)
Stimulus_InclusiveEnd(c) ==
  IF c >= W1Start /\ c <= W1End
    THEN [valid |-> 1, drive |-> TRUE, data |-> W1Base + (c - W1Start)]
  ELSE IF c >= W2Start /\ c < W2End
    THEN [valid |-> 1, drive |-> TRUE, data |-> W2Base + (c - W2Start)]
  ELSE [valid |-> 0, drive |-> FALSE, data |-> 0]

\* if / else if / else of formal_main.cpp:66-74, as [valid, data, drive]:
\* drive says whether audio_data_i is written at all.
Stimulus(c) ==
  IF c >= W1Start /\ c < W1End
    THEN [valid |-> 1, drive |-> TRUE, data |-> W1Base + (c - W1Start)]
  ELSE IF c >= W2Start /\ c < W2End
    THEN [valid |-> 1, drive |-> TRUE, data |-> W2Base + (c - W2Start)]
  ELSE [valid |-> 0, drive |-> FALSE, data |-> 0]

\* dump timestamps of the reset loop and of the run loop
F_ResetTs(c, phase) == c * 2 + phase
\* F_RunTs with the reset offset added after the doubling
F_RunTs_Unscaled(c, phase) == c * 2 + F_ResetCycles + phase

F_RunTs(c, phase) == (c + F_ResetCycles) * 2 + phase

F_Construct ==
  /\ driver = "formal_main" /\ pc = "f_new"
  /\ modelState' = "live"
  /\ pc' = "f_open"
  /\ UNCHANGED <<driver, vmTrace, i, portVars, gotFinish, traceVars, nEvals,
                 seen, finishEval, nChecks, dumpVars, obsVars, endVars>>

F_TraceOpen ==
  /\ driver = "formal_main" /\ pc = "f_open"
  /\ OpenTrace
  /\ pc' = "f_init"
  /\ UNCHANGED <<driver, vmTrace, i, portVars, modelVars, modelState, nChecks,
                 dumpVars, obsVars, endVars>>

\* F_InitSignals with the packet_ready_i line left out
F_InitSignals_Partial ==
  /\ driver = "formal_main" /\ pc = "f_init"
  /\ ports' = [ports EXCEPT !["reset_n_i"] = 0, !["audio_data_i"] = 0,
                            !["audio_valid_i"] = 0, !["audio_ready_i"] = 1,
                            !["frame_bus_ready_i"] = 1, !["frame_ready_i"] = 1,
                            !["encode_mode_i"] = 1,
                            !["bitrate_sel_i"] = 5, !["bandwidth_sel_i"] = 1]
  /\ assigned' = assigned \cup (Ports \ {"clk_i", "packet_ready_i"})
  /\ nWrites' = [p \in Ports |-> IF p \in {"clk_i", "packet_ready_i"}
                                   THEN nWrites[p] ELSE nWrites[p] + 1]
  /\ dirty' = TRUE /\ UNCHANGED uncaptured
  /\ i' = 0
  /\ pc' = "f_rst_test"
  /\ UNCHANGED <<driver, vmTrace, modelVars, modelState, traceVars, nChecks,
                 dumpVars, endVars>>

F_InitSignals ==
  /\ driver = "formal_main" /\ pc = "f_init"
  /\ ports' = [ports EXCEPT !["reset_n_i"] = 0, !["audio_data_i"] = 0,
                            !["audio_valid_i"] = 0, !["audio_ready_i"] = 1,
                            !["frame_bus_ready_i"] = 1, !["frame_ready_i"] = 1,
                            !["packet_ready_i"] = 1, !["encode_mode_i"] = 1,
                            !["bitrate_sel_i"] = 5, !["bandwidth_sel_i"] = 1]
  /\ assigned' = assigned \cup (Ports \ {"clk_i"})
  /\ nWrites' = [p \in Ports |-> IF p = "clk_i" THEN nWrites[p] ELSE nWrites[p] + 1]
  /\ dirty' = TRUE /\ UNCHANGED uncaptured
  /\ i' = 0
  /\ pc' = "f_rst_test"
  /\ UNCHANGED <<driver, vmTrace, modelVars, modelState, traceVars, nChecks,
                 dumpVars, endVars>>

\* F_ResetTest with the loop bound off by one (i <= 5)
F_ResetTest_OffByOne ==
  /\ driver = "formal_main" /\ pc = "f_rst_test"
  /\ pc' = IF i <= F_ResetCycles THEN "f_rst_clk0" ELSE "f_release"
  /\ UNCHANGED <<driver, vmTrace, i, portVars, modelVars, modelState,
                 traceVars, nChecks, dumpVars, obsVars, endVars>>

\* for (int i = 0; i < 5; i++)
F_ResetTest ==
  /\ driver = "formal_main" /\ pc = "f_rst_test"
  /\ pc' = IF i < F_ResetCycles THEN "f_rst_clk0" ELSE "f_release"
  /\ UNCHANGED <<driver, vmTrace, i, portVars, modelVars, modelState,
                 traceVars, nChecks, dumpVars, obsVars, endVars>>

\* tb->clk_i = phase, in either loop
F_SetClk(at, phase, next) ==
  /\ driver = "formal_main" /\ pc = at
  /\ WritePort("clk_i", phase)
  /\ dirty' = TRUE /\ UNCHANGED uncaptured
  /\ pc' = next
  /\ UNCHANGED <<driver, vmTrace, i, modelVars, modelState, traceVars,
                 nChecks, dumpVars, endVars>>

\* tb->eval(), in either loop
F_Eval(at, next) ==
  /\ driver = "formal_main" /\ pc = at
  /\ EvalModel
  /\ dirty' = FALSE /\ uncaptured' = TRUE
  /\ pc' = next
  /\ UNCHANGED <<driver, vmTrace, i, portVars, modelState, traceVars, nChecks,
                 dumpVars, endVars>>

\* trace->dump(ts), in either loop
F_Dump(at, ts, next) ==
  /\ driver = "formal_main" /\ pc = at
  /\ DumpTrace(ts)
  /\ uncaptured' = FALSE /\ UNCHANGED dirty
  /\ pc' = next
  /\ UNCHANGED <<driver, vmTrace, i, portVars, modelVars, modelState,
                 traceVars, nChecks, endVars>>

\* F_ResetClkLow that drives the clock high (both phases of a cycle high)
F_ResetClkLow_High == F_SetClk("f_rst_clk0", 1, "f_rst_eval0")

F_ResetClkLow == F_SetClk("f_rst_clk0", 0, "f_rst_eval0")
F_ResetEvalLow == F_Eval("f_rst_eval0", "f_rst_dump0")
F_ResetDumpLow == F_Dump("f_rst_dump0", F_ResetTs(i, 0), "f_rst_clk1")
F_ResetClkHigh == F_SetClk("f_rst_clk1", 1, "f_rst_eval1")
F_ResetEvalHigh == F_Eval("f_rst_eval1", "f_rst_dump1")

\* trace->dump(i * 2 + 1), then the loop's i++
F_ResetDumpHigh ==
  /\ driver = "formal_main" /\ pc = "f_rst_dump1"
  /\ DumpTrace(F_ResetTs(i, 1))
  /\ uncaptured' = FALSE /\ UNCHANGED dirty
  /\ i' = i + 1
  /\ pc' = "f_rst_test"
  /\ UNCHANGED <<driver, vmTrace, portVars, modelVars, modelState, traceVars,
                 nChecks, endVars>>

\* F_ReleaseReset that writes 0: the reset is never released
F_ReleaseReset_Stuck ==
  /\ driver = "formal_main" /\ pc = "f_release"
  /\ WritePort("reset_n_i", 0)
  /\ dirty' = TRUE /\ UNCHANGED uncaptured
  /\ i' = 0
  /\ pc' = "f_run_test"
  /\ UNCHANGED <<driver, vmTrace, modelVars, modelState, traceVars, nChecks,
                 dumpVars, endVars>>

\* tb->reset_n_i = 1, then the run loop's int i = 0
F_ReleaseReset ==
  /\ driver = "formal_main" /\ pc = "f_release"
  /\ WritePort("reset_n_i", 1)
  /\ dirty' = TRUE /\ UNCHANGED uncaptured
  /\ i' = 0
  /\ pc' = "f_run_test"
  /\ UNCHANGED <<driver, vmTrace, modelVars, modelState, traceVars, nChecks,
                 dumpVars, endVars>>

\* F_RunTest with the cycle budget dropped (for (;;))
F_RunTest_NoBudget ==
  /\ driver = "formal_main" /\ pc = "f_run_test"
  /\ pc' = "f_run_clk0"
  /\ UNCHANGED <<driver, vmTrace, i, portVars, modelVars, modelState,
                 traceVars, nChecks, dumpVars, obsVars, endVars>>

\* for (int i = 0; i < 200; i++)
F_RunTest ==
  /\ driver = "formal_main" /\ pc = "f_run_test"
  /\ pc' = IF i < F_RunCycles THEN "f_run_clk0" ELSE "f_close"
  /\ UNCHANGED <<driver, vmTrace, i, portVars, modelVars, modelState,
                 traceVars, nChecks, dumpVars, obsVars, endVars>>

F_RunClkLow == F_SetClk("f_run_clk0", 0, "f_run_eval0")
F_RunEvalLow == F_Eval("f_run_eval0", "f_run_dump0")
F_RunDumpLow == F_Dump("f_run_dump0", F_RunTs(i, 0), "f_run_clk1")
\* F_RunClkHigh that goes straight on to the dump, without the eval()
F_RunClkHigh_NoEval == F_SetClk("f_run_clk1", 1, "f_run_dump1")

F_RunClkHigh == F_SetClk("f_run_clk1", 1, "f_run_eval1")
F_RunEvalHigh == F_Eval("f_run_eval1", "f_run_dump1")
F_RunDumpHigh == F_Dump("f_run_dump1", F_RunTs(i, 1), "f_run_stim")

\* F_ApplyStimulus that withholds the valid flag once the model has reported
\* finish (a closed-loop stimulus)
F_ApplyStimulus_ClosedLoop ==
  /\ driver = "formal_main" /\ pc = "f_run_stim"
  /\ LET s == Stimulus(i) IN
       /\ ports' = [ports EXCEPT
                      !["audio_data_i"] = IF s.drive THEN s.data ELSE @,
                      !["audio_valid_i"] = IF gotFinish THEN 0 ELSE s.valid]
       /\ assigned' = assigned \cup {"audio_valid_i"}
                        \cup (IF s.drive THEN {"audio_data_i"} ELSE {})
       /\ nWrites' = [nWrites EXCEPT
                        !["audio_data_i"] = IF s.drive THEN @ + 1 ELSE @,
                        !["audio_valid_i"] = @ + 1]
  /\ dirty' = TRUE /\ UNCHANGED uncaptured
  /\ i' = i + 1
  /\ pc' = "f_run_test"
  /\ UNCHANGED <<driver, vmTrace, modelVars, modelState, traceVars, nChecks,
                 dumpVars, endVars>>

\* the "Simple stimulus" block at the end of the loop body, then i++
F_ApplyStimulus ==
  /\ driver = "formal_main" /\ pc = "f_run_stim"
  /\ LET s == Stimulus(i) IN
       /\ ports' = [ports EXCEPT
                      !["audio_data_i"] = IF s.drive THEN s.data ELSE @,
                      !["audio_valid_i"] = s.valid]
       /\ assigned' = assigned \cup {"audio_valid_i"}
                        \cup (IF s.drive THEN {"audio_data_i"} ELSE {})
       /\ nWrites' = [nWrites EXCEPT
                        !["audio_data_i"] = IF s.drive THEN @ + 1 ELSE @,
                        !["audio_valid_i"] = @ + 1]
  /\ dirty' = TRUE /\ UNCHANGED uncaptured
  /\ i' = i + 1
  /\ pc' = "f_run_test"
  /\ UNCHANGED <<driver, vmTrace, modelVars, modelState, traceVars, nChecks,
                 dumpVars, endVars>>

\* F_Close that forgets the close() and goes on to delete the sink
F_Close_Skipped ==
  /\ driver = "formal_main" /\ pc = "f_close"
  /\ pc' = "f_del_trace"
  /\ UNCHANGED <<driver, vmTrace, i, portVars, modelVars, modelState, nChecks,
                 traceVars, dumpVars, obsVars, endVars>>

\* trace->close()
F_Close ==
  /\ driver = "formal_main" /\ pc = "f_close"
  /\ CloseTrace
  /\ pc' = "f_del_trace"
  /\ UNCHANGED <<driver, vmTrace, i, portVars, modelVars, modelState, nChecks,
                 dumpVars, obsVars, endVars>>

\* delete trace
F_DeleteTrace ==
  /\ driver = "formal_main" /\ pc = "f_del_trace"
  /\ traceState' = "deleted"
  /\ UNCHANGED <<traceErr, nCloses>>
  /\ pc' = "f_del_tb"
  /\ UNCHANGED <<driver, vmTrace, i, portVars, modelVars, modelState, nChecks,
                 dumpVars, obsVars, endVars>>

\* delete tb
F_DeleteModel ==
  /\ driver = "formal_main" /\ pc = "f_del_tb"
  /\ modelState' = "deleted"
  /\ pc' = "f_return"
  /\ UNCHANGED <<driver, vmTrace, i, portVars, modelVars, traceVars, nChecks,
                 dumpVars, obsVars, endVars>>

\* printf(...); return 0;
F_Return ==
  /\ driver = "formal_main" /\ pc = "f_return"
  /\ exit' = <<0>>
  /\ pc' = "done"
  /\ UNCHANGED <<driver, vmTrace, i, portVars, modelVars, modelState,
                 traceVars, nChecks, dumpVars, obsVars, nFinal, finalAt,
                 reported>>

FormalNext ==
  \/ F_Construct \/ F_TraceOpen \/ F_InitSignals
  \/ F_ResetTest \/ F_ResetClkLow \/ F_ResetEvalLow \/ F_ResetDumpLow
  \/ F_ResetClkHigh \/ F_ResetEvalHigh \/ F_ResetDumpHigh
  \/ F_ReleaseReset
  \/ F_RunTest \/ F_RunClkLow \/ F_RunEvalLow \/ F_RunDumpLow
  \/ F_RunClkHigh \/ F_RunEvalHigh \/ F_RunDumpHigh \/ F_ApplyStimulus
  \/ F_Close \/ F_DeleteTrace \/ F_DeleteModel \/ F_Return

(* ---- verilator_tb_mlow_codec ------------------------------------------ *)

\* dump timestamps of the reset loop and of the run loop
T_ResetTs(c) == c
T_RunTs(c) == T_ResetEvals + c

T_Construct ==
  /\ driver = "verilator_tb" /\ pc = "t_new"
  /\ modelState' = "live"
  /\ pc' = "t_open"
  /\ UNCHANGED <<driver, vmTrace, i, portVars, gotFinish, traceVars, nEvals,
                 seen, finishEval, nChecks, dumpVars, obsVars, endVars>>

\* tfp = nullptr; #ifdef VM_TRACE ... tfp->open(...) #endif; then int i = 0
T_TraceSetup ==
  /\ driver = "verilator_tb" /\ pc = "t_open"
  /\ IF vmTrace THEN OpenTrace ELSE UNCHANGED traceVars
  /\ i' = 0
  /\ pc' = "t_rst_test"
  /\ UNCHANGED <<driver, vmTrace, portVars, modelVars, modelState, nChecks,
                 dumpVars, obsVars, endVars>>

\* T_ResetTest that also leaves the reset loop on a reported finish
T_ResetTest_FinishAware ==
  /\ driver = "verilator_tb" /\ pc = "t_rst_test"
  /\ IF i < T_ResetEvals /\ ~gotFinish
       THEN pc' = "t_rst_eval" /\ i' = i
       ELSE pc' = "t_run_test" /\ i' = 0
  /\ UNCHANGED <<driver, vmTrace, portVars, modelVars, modelState, traceVars,
                 nChecks, dumpVars, obsVars, endVars>>

\* for (int i = 0; i < 10; ++i)
T_ResetTest ==
  /\ driver = "verilator_tb" /\ pc = "t_rst_test"
  /\ IF i < T_ResetEvals
       THEN pc' = "t_rst_eval" /\ i' = i
       ELSE pc' = "t_run_test" /\ i' = 0
  /\ UNCHANGED <<driver, vmTrace, portVars, modelVars, modelState, traceVars,
                 nChecks, dumpVars, obsVars, endVars>>

\* top->eval(), in either loop
T_Eval(at, next) ==
  /\ driver = "verilator_tb" /\ pc = at
  /\ EvalModel
  /\ dirty' = FALSE /\ uncaptured' = TRUE
  /\ pc' = next
  /\ UNCHANGED <<driver, vmTrace, i, portVars, modelState, traceVars, nChecks,
                 dumpVars, endVars>>

\* if (tfp) tfp->dump(ts)
T_Dump(ts) ==
  IF traceState # "null"
    THEN DumpTrace(ts) /\ uncaptured' = FALSE /\ UNCHANGED dirty
    ELSE UNCHANGED <<dumpVars, obsVars>>

T_ResetEval == T_Eval("t_rst_eval", "t_rst_dump")

\* if (tfp) tfp->dump(i); then ++i
T_ResetDump ==
  /\ driver = "verilator_tb" /\ pc = "t_rst_dump"
  /\ T_Dump(T_ResetTs(i))
  /\ i' = i + 1
  /\ pc' = "t_rst_test"
  /\ UNCHANGED <<driver, vmTrace, portVars, modelVars, modelState, traceVars,
                 nChecks, endVars>>

\* T_RunTest with the loop bound off by one (i <= 10000)
T_RunTest_OffByOne ==
  /\ driver = "verilator_tb" /\ pc = "t_run_test"
  /\ pc' = IF i <= T_RunBudget THEN "t_run_eval" ELSE "t_close"
  /\ UNCHANGED <<driver, vmTrace, i, portVars, modelVars, modelState,
                 traceVars, nChecks, dumpVars, obsVars, endVars>>

\* for (int i = 0; i < 10000; ++i)
T_RunTest ==
  /\ driver = "verilator_tb" /\ pc = "t_run_test"
  /\ pc' = IF i < T_RunBudget THEN "t_run_eval" ELSE "t_close"
  /\ UNCHANGED <<driver, vmTrace, i, portVars, modelVars, modelState,
                 traceVars, nChecks, dumpVars, obsVars, endVars>>

T_RunEval == T_Eval("t_run_eval", "t_run_dump")

\* if (tfp) tfp->dump(10 + i)
T_RunDump ==
  /\ driver = "verilator_tb" /\ pc = "t_run_dump"
  /\ T_Dump(T_RunTs(i))
  /\ pc' = "t_run_check"
  /\ UNCHANGED <<driver, vmTrace, i, portVars, modelVars, modelState,
                 traceVars, nChecks, endVars>>

\* T_RunCheck that reads the finish flag and never breaks
T_RunCheck_NoBreak ==
  /\ driver = "verilator_tb" /\ pc = "t_run_check"
  /\ nChecks' = nChecks + 1
  /\ pc' = "t_run_test" /\ i' = i + 1
  /\ UNCHANGED <<driver, vmTrace, portVars, modelVars, modelState, traceVars,
                 dumpVars, obsVars, endVars>>

\* if (Verilated::gotFinish()) break; otherwise ++i
T_RunCheck ==
  /\ driver = "verilator_tb" /\ pc = "t_run_check"
  /\ nChecks' = nChecks + 1
  /\ IF gotFinish
       THEN pc' = "t_close" /\ i' = i
       ELSE pc' = "t_run_test" /\ i' = i + 1
  /\ UNCHANGED <<driver, vmTrace, portVars, modelVars, modelState, traceVars,
                 dumpVars, obsVars, endVars>>

\* T_Close with top->final() moved inside the if (tfp) block's path: an
\* untraced build skips it
T_Close_FinalOnlyTraced ==
  /\ driver = "verilator_tb" /\ pc = "t_close"
  /\ IF traceState # "null" THEN CloseTrace ELSE UNCHANGED traceVars
  /\ pc' = IF traceState # "null" THEN "t_del_trace" ELSE "t_del_top"
  /\ UNCHANGED <<driver, vmTrace, i, portVars, modelVars, modelState, nChecks,
                 dumpVars, obsVars, endVars>>

\* if (tfp) { tfp->close(); delete tfp; }
T_Close ==
  /\ driver = "verilator_tb" /\ pc = "t_close"
  /\ IF traceState # "null" THEN CloseTrace ELSE UNCHANGED traceVars
  /\ pc' = IF traceState # "null" THEN "t_del_trace" ELSE "t_final"
  /\ UNCHANGED <<driver, vmTrace, i, portVars, modelVars, modelState, nChecks,
                 dumpVars, obsVars, endVars>>

T_DeleteTrace ==
  /\ driver = "verilator_tb" /\ pc = "t_del_trace"
  /\ traceState' = "deleted"
  /\ UNCHANGED <<traceErr, nCloses>>
  /\ pc' = "t_final"
  /\ UNCHANGED <<driver, vmTrace, i, portVars, modelVars, modelState, nChecks,
                 dumpVars, obsVars, endVars>>

\* top->final()
T_Final ==
  /\ driver = "verilator_tb" /\ pc = "t_final"
  /\ modelState = "live"
  /\ nFinal' = nFinal + 1
  /\ finalAt' = <<traceState, nEvals>>
  /\ pc' = "t_del_top"
  /\ UNCHANGED <<driver, vmTrace, i, portVars, modelVars, modelState,
                 traceVars, nChecks, dumpVars, obsVars, exit, reported>>

\* delete top
T_DeleteModel ==
  /\ driver = "verilator_tb" /\ pc = "t_del_top"
  /\ modelState' = "deleted"
  /\ pc' = "t_return"
  /\ UNCHANGED <<driver, vmTrace, i, portVars, modelVars, traceVars, nChecks,
                 dumpVars, obsVars, endVars>>

\* return 0
T_Return ==
  /\ driver = "verilator_tb" /\ pc = "t_return"
  /\ exit' = <<0>>
  /\ pc' = "done"
  /\ UNCHANGED <<driver, vmTrace, i, portVars, modelVars, modelState,
                 traceVars, nChecks, dumpVars, obsVars, nFinal, finalAt,
                 reported>>

TbNext ==
  \/ T_Construct \/ T_TraceSetup
  \/ T_ResetTest \/ T_ResetEval \/ T_ResetDump
  \/ T_RunTest \/ T_RunEval \/ T_RunDump \/ T_RunCheck
  \/ T_Close \/ T_DeleteTrace \/ T_Final \/ T_DeleteModel \/ T_Return

(* ---- verilator_tb_mlow_codec_comprehensive ---------------------------- *)

\* dump timestamp of the simulation loop
C_Ts(c) == c

C_Construct ==
  /\ driver = "comprehensive" /\ pc = "c_new"
  /\ modelState' = "live"
  /\ pc' = "c_open"
  /\ UNCHANGED <<driver, vmTrace, i, portVars, gotFinish, traceVars, nEvals,
                 seen, finishEval, nChecks, dumpVars, obsVars, endVars>>

\* tfp->open(vcd_filename.c_str()); then int cycle = 0
C_TraceOpen ==
  /\ driver = "comprehensive" /\ pc = "c_open"
  /\ OpenTrace
  /\ i' = 0
  /\ pc' = "c_test"
  /\ UNCHANGED <<driver, vmTrace, portVars, modelVars, modelState, nChecks,
                 dumpVars, obsVars, endVars>>

\* while (!Verilated::gotFinish() && cycle < 50000)
C_LoopTest ==
  /\ driver = "comprehensive" /\ pc = "c_test"
  /\ nChecks' = nChecks + 1
  /\ pc' = IF ~gotFinish /\ i < C_Budget THEN "c_eval" ELSE "c_close"
  /\ UNCHANGED <<driver, vmTrace, i, portVars, modelVars, modelState,
                 traceVars, dumpVars, obsVars, endVars>>

\* tb->eval()
C_Eval ==
  /\ driver = "comprehensive" /\ pc = "c_eval"
  /\ EvalModel
  /\ dirty' = FALSE /\ uncaptured' = TRUE
  /\ pc' = "c_dump"
  /\ UNCHANGED <<driver, vmTrace, i, portVars, modelState, traceVars, nChecks,
                 dumpVars, endVars>>

\* tfp->dump(cycle); cycle++;
C_DumpIncr ==
  /\ driver = "comprehensive" /\ pc = "c_dump"
  /\ DumpTrace(C_Ts(i))
  /\ uncaptured' = FALSE /\ UNCHANGED dirty
  /\ i' = i + 1
  /\ pc' = "c_test"
  /\ UNCHANGED <<driver, vmTrace, portVars, modelVars, modelState, traceVars,
                 nChecks, endVars>>

\* tfp->close()
C_Close ==
  /\ driver = "comprehensive" /\ pc = "c_close"
  /\ CloseTrace
  /\ pc' = "c_del_trace"
  /\ UNCHANGED <<driver, vmTrace, i, portVars, modelVars, modelState, nChecks,
                 dumpVars, obsVars, endVars>>

\* delete tfp
C_DeleteTrace ==
  /\ driver = "comprehensive" /\ pc = "c_del_trace"
  /\ traceState' = "deleted"
  /\ UNCHANGED <<traceErr, nCloses>>
  /\ pc' = "c_del_tb"
  /\ UNCHANGED <<driver, vmTrace, i, portVars, modelVars, modelState, nChecks,
                 dumpVars, obsVars, endVars>>

\* delete tb
C_DeleteModel ==
  /\ driver = "comprehensive" /\ pc = "c_del_tb"
  /\ modelState' = "deleted"
  /\ pc' = "c_report"
  /\ UNCHANGED <<driver, vmTrace, i, portVars, modelVars, traceVars, nChecks,
                 dumpVars, obsVars, endVars>>

\* C_Report that prints the index of the last cycle instead of the count
C_Report_LastIndex ==
  /\ driver = "comprehensive" /\ pc = "c_report"
  /\ reported' = <<i - 1>>
  /\ exit' = <<0>>
  /\ pc' = "done"
  /\ UNCHANGED <<driver, vmTrace, i, portVars, modelVars, modelState,
                 traceVars, nChecks, dumpVars, obsVars, nFinal, finalAt>>

\* std::cout << "... completed after " << cycle << " cycles."; return 0;
C_Report ==
  /\ driver = "comprehensive" /\ pc = "c_report"
  /\ reported' = <<i>>
  /\ exit' = <<0>>
  /\ pc' = "done"
  /\ UNCHANGED <<driver, vmTrace, i, portVars, modelVars, modelState,
                 traceVars, nChecks, dumpVars, obsVars, nFinal, finalAt>>

CompNext ==
  \/ C_Construct \/ C_TraceOpen
  \/ C_LoopTest \/ C_Eval \/ C_DumpIncr
  \/ C_Close \/ C_DeleteTrace \/ C_DeleteModel \/ C_Report

(* ---- the specification ------------------------------------------------ *)

StartPc(d) ==
  IF d = "formal_main" THEN "f_new"
  ELSE IF d = "verilator_tb" THEN "t_new" ELSE "c_new"

Init ==
  /\ driver \in Drivers
  /\ vmTrace \in (IF driver = "verilator_tb" THEN BOOLEAN ELSE {TRUE})
  /\ pc = StartPc(driver)
  /\ i = 0
  /\ ports = [p \in Ports |-> 0]
  /\ assigned = {}
  /\ nWrites = [p \in Ports |-> 0]
  /\ gotFinish = FALSE
  /\ modelState = "none"
  /\ traceState = "null"
  /\ nEvals = 0
  /\ seen = [p \in Ports |-> 0]
  /\ finishEval = 0
  /\ nChecks = 0
  /\ nDumps = 0
  /\ lastTs = -1
  /\ dirty = FALSE
  /\ uncaptured = FALSE
  /\ traceErr = FALSE
  /\ nCloses = 0
  /\ nFinal = 0
  /\ finalAt = <<>>
  /\ exit = <<>>
  /\ reported = <<>>

Next == FormalNext \/ TbNext \/ CompNext

Spec == Init /\ [][Next]_vars

\* main() is sequential code over blocking calls: as long as a next
\* statement exists, it is executed.
FairSpec == Spec /\ WF_vars(Next)

(* ---- the claims ------------------------------------------------------- *)

Done == pc = "done"

\* the cycle budget of a driver's main loop
Budget(d) ==
  IF d = "formal_main" THEN F_RunCycles
  ELSE IF d = "verilator_tb" THEN T_RunBudget ELSE C_Budget

\* C1, as stated: when the model never reports finish, a traced run with
\* cycle budget N performs 2N evaluations and 2N captures, the last one at
\* timestamp 2N-1.
C1_Original ==
  (Done /\ vmTrace /\ ~gotFinish) =>
     /\ nEvals = 2 * Budget(driver)
     /\ nDumps = 2 * Budget(driver)
     /\ lastTs = 2 * Budget(driver) - 1

\* C1, amended: every cycle of formal_main is two evaluate+capture phases
\* and every iteration of the other two drivers is one; when the model never
\* reports finish, formal_main performs 2*(5+200) = 410 evaluations and
\* captures (timestamps 0..409), verilator_tb 10+10000 = 10010 (0..10009)
\* and the comprehensive driver 50000 (0..49999).
C1_RunLength ==
  /\ vmTrace /\ nDumps > 0 => lastTs = nDumps - 1
  /\ pc = "f_rst_test" => nEvals = 2 * i /\ nDumps = nEvals
  /\ pc = "f_run_test" => nEvals = 2 * (F_ResetCycles + i) /\ nDumps = nEvals
  /\ pc = "t_rst_test" => nEvals = i /\ (vmTrace => nDumps = nEvals)
  /\ pc = "c_test" => nEvals = i /\ nDumps = nEvals
  /\ (Done /\ vmTrace /\ ~gotFinish) =>
       /\ i = Budget(driver)
       /\ nDumps = nEvals
       /\ lastTs = nDumps - 1
       /\ driver = "formal_main" => nEvals = 410
       /\ driver = "verilator_tb" => nEvals = 10010
       /\ driver = "comprehensive" => nEvals = 50000

\* a traced verilator_tb run that ends with no finish reported
C1_Witness ==
  /\ Done /\ driver = "verilator_tb" /\ vmTrace /\ ~gotFinish
  /\ nDumps = 10010 /\ lastTs = 10009

\* C2: with tracing on, the timestamp of every capture is the number of
\* captures made before it: 0 first, then one more each time, across the
\* reset-to-run boundary and on an early finish.
C2_TimestampsConsecutive ==
  vmTrace => lastTs = nDumps - 1

\* a traced verilator_tb run that finished early, in its 3rd run iteration
C2_Witness ==
  /\ Done /\ driver = "verilator_tb" /\ vmTrace /\ gotFinish
  /\ finishEval = T_ResetEvals + 3 /\ lastTs = T_ResetEvals + 2

F_ResetPcs ==
  {"f_rst_test", "f_rst_clk0", "f_rst_eval0", "f_rst_dump0", "f_rst_clk1",
   "f_rst_eval1", "f_rst_dump1"}

\* C3: in formal_main the evaluations 1..10 (captured at timestamps 0..9)
\* see reset_n_i = 0 and every later one sees 1; reset_n_i is written twice in
\* all, to 0 at initialisation and to 1 after the 10th evaluation and before
\* the 11th, and never again.
C3_ResetHeldThenReleased ==
  driver = "formal_main" =>
    /\ nEvals >= 1 =>
         seen["reset_n_i"] = IF nEvals <= 2 * 5 THEN 0 ELSE 1
    /\ nDumps >= 1 /\ ~uncaptured =>
         seen["reset_n_i"] = IF lastTs <= 9 THEN 0 ELSE 1
    /\ nWrites["reset_n_i"] <= 2
    /\ nWrites["reset_n_i"] = 2 <=> ports["reset_n_i"] = 1
    /\ nWrites["reset_n_i"] = 2 => nEvals >= 10 /\ pc \notin F_ResetPcs
    /\ nEvals > 10 => nWrites["reset_n_i"] = 2
    /\ Done => nWrites["reset_n_i"] = 2 /\ nEvals = 410

\* a complete formal_main run, reset released
C3_Witness ==
  /\ driver = "formal_main" /\ Done
  /\ seen["reset_n_i"] = 1 /\ nWrites["reset_n_i"] = 2

\* the 0-based cycle an evaluation belongs to, by its 1-based number
CycleOfEval(d, n) == IF d = "formal_main" THEN (n - 1) \div 2 ELSE n - 1

\* the number of evaluations of a driver's reset phase
ResetEvals(d) ==
  IF d = "formal_main" THEN 2 * F_ResetCycles
  ELSE IF d = "verilator_tb" THEN T_ResetEvals ELSE 0

\* C4, as stated: in every driver no evaluation is performed for a cycle
\* after the main-loop cycle in which the model first reported completion,
\* and the finish condition has been checked once for every completed
\* main-loop cycle.
C4_Original ==
  /\ gotFinish /\ finishEval > ResetEvals(driver) =>
       CycleOfEval(driver, nEvals) = CycleOfEval(driver, finishEval)
  /\ pc \in {"f_run_test", "t_run_test", "c_test"} => nChecks = i

T_AfterRunEval ==
  {"t_run_dump", "t_run_check", "t_close", "t_del_trace", "t_final",
   "t_del_top", "t_return", "done"}
C_AfterEval ==
  {"c_dump", "c_test", "c_close", "c_del_trace", "c_del_tb", "c_report",
   "done"}

\* C4, amended: in the comprehensive driver, and in the main loop of
\* verilator_tb, the evaluation that first reports completion is the last
\* one and the run goes on to cleanup; the finish flag is read once after
\* every such evaluation and before the next (the comprehensive driver also
\* reads it once before its first evaluation).  formal_main never reads it,
\* and verilator_tb does not read it in its 10 reset evaluations.
C4_EarlyTermination ==
  /\ driver = "comprehensive" =>
       /\ gotFinish => nEvals = finishEval /\ pc \in C_AfterEval
       /\ pc = "c_eval" => nChecks = nEvals + 1
       /\ pc = "c_dump" => nChecks = nEvals
       /\ pc \in C_AfterEval \ {"c_dump", "c_test"} => nChecks = nEvals + 1
  /\ driver = "verilator_tb" =>
       /\ gotFinish /\ finishEval > T_ResetEvals =>
            nEvals = finishEval /\ pc \in T_AfterRunEval
       /\ nEvals <= T_ResetEvals => nChecks = 0
       /\ pc = "t_run_eval" => nChecks = nEvals - T_ResetEvals
       /\ pc \in {"t_run_dump", "t_run_check"} =>
            nChecks = nEvals - T_ResetEvals - 1
       /\ pc \in T_AfterRunEval \ {"t_run_dump", "t_run_check"} =>
            nChecks = nEvals - T_ResetEvals
  /\ driver = "formal_main" => nChecks = 0

\* a comprehensive run ended by a finish reported in cycle 42
C4_Witness ==
  /\ driver = "comprehensive" /\ Done /\ gotFinish
  /\ finishEval = 43 /\ nEvals = 43

\* C5, as stated: in formal_main both evaluations of run cycle c (captured at
\* timestamps 2*(c+5) and 2*(c+5)+1) see audio_valid_i, and audio_data_i
\* when valid, as the stimulus of index c sets them.
C5_StimulusBeforeStep ==
  (driver = "formal_main" /\ pc \in {"f_run_dump0", "f_run_dump1"}) =>
     /\ seen["audio_valid_i"] = Stimulus(i).valid
     /\ Stimulus(i).drive => seen["audio_data_i"] = Stimulus(i).data

\* C6: the stimulus step of run-cycle index c leaves audio_valid_i = 1 with
\* audio_data_i = 0x1234 + (c-10) exactly for 10 <= c < 26, and with
\* 0x5678 + (c-50) exactly for 50 <= c < 66, and audio_valid_i = 0 for every
\* other c in 0..199; index 15 gives 0x1239, indices 9 and 26 give invalid.
C6_StimulusWindows ==
  (driver = "formal_main" /\ pc = "f_run_test" /\ i > 0) =>
     LET c == i - 1 IN
       /\ ports["audio_valid_i"] = 1 <=> (c \in 10..25 \/ c \in 50..65)
       /\ ports["audio_valid_i"] \in {0, 1}
       /\ c \in 10..25 => ports["audio_data_i"] = 4660 + (c - 10)
       /\ c \in 50..65 => ports["audio_data_i"] = 22136 + (c - 50)
       /\ c = 15 => ports["audio_data_i"] = 4665 /\ ports["audio_valid_i"] = 1
       /\ c \in {9, 26} => ports["audio_valid_i"] = 0

\* the ports right after the stimulus step of index 15
C6_Witness ==
  /\ driver = "formal_main" /\ pc = "f_run_test" /\ i = 16
  /\ ports["audio_data_i"] = 4665 /\ ports["audio_valid_i"] = 1

\* C7: with tracing on, every capture is taken right after an evaluation
\* with no input written in between, no evaluation starts while the previous
\* one is still uncaptured, and none is left uncaptured at the end.
C7_EvalThenCapture ==
  /\ [][vmTrace =>
          /\ nDumps' # nDumps => uncaptured /\ ~dirty
          /\ nEvals' # nEvals => ~uncaptured]_vars
  /\ [](vmTrace /\ Done => ~uncaptured)

\* formal_main after both evaluate+capture phases of run cycle 10
C7_Witness ==
  /\ driver = "formal_main" /\ pc = "f_run_stim" /\ i = 10
  /\ nDumps = nEvals /\ ~uncaptured /\ ~dirty

\* C8, as stated: in every driver final() has been called exactly once by
\* the end of the run, after the last evaluation and while the trace sink
\* was not yet closed.
C8_FinalizeOnceBeforeClose ==
  Done =>
    /\ nFinal = 1
    /\ finalAt[2] = nEvals
    /\ finalAt[1] \in {"null", "open", "openFailed"}

\* C9, as stated: a run in which the trace sink failed to open or to close
\* does not exit with code 0.
C9_ExitCodeOnTraceFailure ==
  (Done /\ traceErr) => exit # <<0>>

\* the inputs formal_main applies at its n-th evaluation (n = 1..410), as a
\* function of n alone: k is the stimulus index whose values are on the
\* ports, -1 while none has been applied
F_AppliedAt(n) ==
  LET k == (n - 1) \div 2 - 6 IN
    [reset_n_i |-> IF n <= 10 THEN 0 ELSE 1,
     clk_i |-> (n - 1) % 2,
     audio_valid_i |-> IF k \in 10..25 \/ k \in 50..65 THEN 1 ELSE 0,
     audio_data_i |-> IF k < 10 THEN 0
                      ELSE IF k <= 25 THEN 4660 + (k - 10)
                      ELSE IF k < 50 THEN 4675
                      ELSE IF k <= 65 THEN 22136 + (k - 50)
                      ELSE 22151,
     audio_ready_i |-> 1, frame_bus_ready_i |-> 1, frame_ready_i |-> 1,
     packet_ready_i |-> 1, encode_mode_i |-> 1, bitrate_sel_i |-> 5,
     bandwidth_sel_i |-> 1]

\* C11: in formal_main the inputs seen by the n-th evaluation are one fixed
\* function of n, whatever the model has reported so far, and every run has
\* the same 410 evaluations: two runs against different models apply the
\* same input sequence.
C11_OpenLoopInputs ==
  driver = "formal_main" =>
    /\ nEvals >= 1 => seen = F_AppliedAt(nEvals)
    /\ nEvals <= 410
    /\ Done => nEvals = 410

\* a complete formal_main run against a model that reported finish in run
\* cycle 20, while the first stimulus window was being applied
C11_Witness ==
  /\ driver = "formal_main" /\ Done /\ gotFinish /\ finishEval = 51
  /\ nEvals = 410

\* C12: the cycle count the comprehensive driver prints is the number of
\* eval() calls and of dump() calls of the run: 50000 when the model never
\* reports finish, k+1 when it first does in the 0-based iteration k.
C12_ReportedCycles ==
  (driver = "comprehensive" /\ Done) =>
     /\ reported = <<nEvals>>
     /\ nDumps = nEvals
     /\ ~gotFinish => reported = <<50000>>
     /\ gotFinish => reported = <<finishEval>> /\ finishEval <= 50000

\* a comprehensive run whose model reported finish in iteration 42
C12_Witness ==
  /\ driver = "comprehensive" /\ Done /\ gotFinish
  /\ finishEval = 43 /\ reported = <<43>>

\* the largest number of evaluations of a run of driver d
MaxEvals(d) ==
  IF d = "formal_main" THEN 410
  ELSE IF d = "verilator_tb" THEN 10010 ELSE 50000

\* C13: whatever the model does, every run makes at most 410 (formal_main),
\* 10010 (verilator_tb) or 50000 (comprehensive) evaluations and reaches
\* process exit, with the trace sink (if any) closed and released.
C13_Terminates ==
  /\ [](nEvals <= MaxEvals(driver))
  /\ <>(Done /\ exit # <<>> /\ traceState \in {"deleted", "null"})

\* a comprehensive run that used its whole budget, no finish ever reported
C13_Witness ==
  /\ driver = "comprehensive" /\ Done /\ ~gotFinish /\ nEvals = 50000

\* C14: in a run that has a trace sink, the sink is opened before the first
\* capture and closed exactly once; after the close there is no capture and
\* no evaluation; the model is deleted only after the sink has been closed
\* and deleted; nothing is done to the sink after its deletion nor to the
\* model after its deletion.
C14_Lifecycle ==
  /\ [](vmTrace =>
          /\ nDumps > 0 => traceState # "null"
          /\ nCloses <= 1
          /\ modelState = "deleted" => traceState = "deleted" /\ nCloses = 1
          /\ traceState \in {"closed", "closeFailed"} => nCloses = 1
          /\ Done => nCloses = 1 /\ modelState = "deleted")
  /\ [][vmTrace =>
          /\ nDumps' # nDumps => traceState \in {"open", "openFailed"}
          /\ nCloses >= 1 => nDumps' = nDumps /\ nEvals' = nEvals
          /\ traceState = "deleted" =>
               nDumps' = nDumps /\ nCloses' = nCloses /\ traceState' = "deleted"
          /\ modelState = "deleted" =>
               /\ nEvals' = nEvals /\ nFinal' = nFinal /\ ports' = ports
               /\ modelState' = "deleted"]_vars

\* a traced verilator_tb run at its end: captures made, sink closed once and
\* deleted, model finalized and deleted
C14_Witness ==
  /\ driver = "verilator_tb" /\ vmTrace /\ Done
  /\ nDumps > 0 /\ nCloses = 1 /\ nFinal = 1
  /\ traceState = "deleted" /\ modelState = "deleted"

\* C15: in formal_main the n-th evaluation sees clk_i = (n-1) mod 2, low
\* first and high second in every cycle of both loops, the capture with
\* timestamp t records clk_i = t mod 2, and a new cycle starts only when both
\* phases of the previous one have been evaluated and captured.
C15_TwoPhaseClock ==
  driver = "formal_main" =>
    /\ nEvals >= 1 => seen["clk_i"] = (nEvals - 1) % 2
    /\ nDumps >= 1 /\ ~uncaptured => seen["clk_i"] = lastTs % 2
    /\ pc \in {"f_rst_clk0", "f_run_clk0"} =>
         nEvals % 2 = 0 /\ nDumps = nEvals
    /\ pc = "f_rst_clk0" => nEvals = 2 * i
    /\ pc = "f_run_clk0" => nEvals = 2 * (5 + i)
    /\ pc \in {"f_rst_clk1", "f_run_clk1"} => nEvals % 2 = 1 /\ nDumps = nEvals

\* the high-phase capture of the last run cycle
C15_Witness ==
  /\ driver = "formal_main" /\ ~uncaptured /\ lastTs = 409
  /\ seen["clk_i"] = 1

\* C16: in formal_main all 11 input ports have been written by the driver
\* when the first eval() is called, and at every later one.
C16_InputsDefinedBeforeEval ==
  driver = "formal_main" =>
    /\ nEvals >= 1 => assigned = Ports
    /\ pc \in {"f_rst_eval0", "f_rst_eval1", "f_run_eval0", "f_run_eval1"} =>
         assigned = Ports
    /\ Cardinality(Ports) = 11

\* formal_main right after its first eval()
C16_Witness ==
  /\ driver = "formal_main" /\ nEvals = 1 /\ assigned = Ports

\* C17: in formal_main an evaluation that sees audio_valid_i = 1 sees
\* reset_n_i = 1, and the 10 evaluations of the 5 reset cycles see
\* audio_valid_i = 0.
C17_NoValidUnderReset ==
  (driver = "formal_main" /\ nEvals >= 1) =>
     /\ seen["audio_valid_i"] = 1 => seen["reset_n_i"] = 1
     /\ nEvals <= 10 => seen["audio_valid_i"] = 0 /\ seen["reset_n_i"] = 0

\* the first evaluation that sees valid stimulus data
C17_Witness ==
  /\ driver = "formal_main" /\ nEvals >= 1
  /\ seen["audio_valid_i"] = 1 /\ seen["audio_data_i"] = 4660
  /\ seen["reset_n_i"] = 1

StaticPorts ==
  {"audio_ready_i", "frame_bus_ready_i", "frame_ready_i", "packet_ready_i",
   "encode_mode_i", "bitrate_sel_i", "bandwidth_sel_i"}

\* C18: in formal_main no step other than the initialisation writes one of
\* the seven static inputs, and the stimulus step of an index outside both
\* windows writes audio_valid_i = 0 and nothing else: audio_data_i keeps the
\* last value driven.
C18_StimulusFrame ==
  [][driver = "formal_main" =>
       /\ pc # "f_init" =>
            \A p \in StaticPorts :
              ports'[p] = ports[p] /\ nWrites'[p] = nWrites[p]
       /\ (pc = "f_run_stim" /\ i \notin 10..25 /\ i \notin 50..65) =>
            /\ ports' = [ports EXCEPT !["audio_valid_i"] = 0]
            /\ nWrites' = [nWrites EXCEPT !["audio_valid_i"] = @ + 1]]_vars

\* after the stimulus step of index 26, the first one after window 1:
\* valid cleared, data still 0x1234 + 15
C18_Witness ==
  /\ driver = "formal_main" /\ pc = "f_run_test" /\ i = 27
  /\ ports["audio_valid_i"] = 0 /\ ports["audio_data_i"] = 4675

T_AfterLoops ==
  {"t_close", "t_del_trace", "t_final", "t_del_top", "t_return", "done"}

\* C19: in verilator_tb a finish first reported in one of the 10 reset
\* evaluations is not read in the reset loop: the run leaves its loops only
\* after 11 evaluations (10 reset, 1 run) and one finish check, with
\* captures at timestamps 0..10 when tracing.
C19_FinishDuringReset ==
  (driver = "verilator_tb" /\ gotFinish /\ finishEval <= 10) =>
     /\ nEvals <= 11
     /\ nEvals <= 10 => nChecks = 0 /\ pc \notin T_AfterLoops
     /\ pc \in T_AfterLoops =>
          /\ nEvals = 11 /\ nChecks = 1
          /\ vmTrace => nDumps = 11 /\ lastTs = 10

\* a traced run whose model reported finish in the very first evaluation
C19_Witness ==
  /\ driver = "verilator_tb" /\ vmTrace /\ Done /\ finishEval = 1
  /\ nEvals = 11 /\ lastTs = 10

\* the number of evaluations of a complete verilator_tb run, by the
\* evaluation that first reported finish (0: none)
T_TotalEvals(f) == IF f = 0 THEN 10010 ELSE IF f <= 11 THEN 11 ELSE f

\* C20: in verilator_tb the eval() calls, the gotFinish() checks and the
\* final() call are placed by the loop counters and the model's finish
\* report alone, the same with and without VM_TRACE; without VM_TRACE the
\* trace sink is never opened, never given a capture and never closed.
C20_TraceIndependent ==
  driver = "verilator_tb" =>
    /\ pc = "t_rst_eval" => nEvals = i /\ nChecks = 0
    /\ pc = "t_run_eval" => nEvals = 10 + i /\ nChecks = i
    /\ pc = "t_run_check" => nEvals = 11 + i /\ nChecks = i
    /\ pc \in T_AfterLoops =>
         /\ nEvals = T_TotalEvals(finishEval)
         /\ nChecks = nEvals - 10
         /\ nFinal = IF pc \in {"t_close", "t_del_trace", "t_final"}
                       THEN 0 ELSE 1
    /\ nFinal = 1 => finalAt[2] = nEvals
    /\ pc \notin T_AfterLoops => nFinal = 0
    /\ ~vmTrace =>
         /\ traceState = "null" /\ ~traceErr
         /\ nDumps = 0 /\ lastTs = -1 /\ nCloses = 0

\* a complete untraced run, no finish reported
C20_Witness ==
  /\ driver = "verilator_tb" /\ ~vmTrace /\ Done
  /\ nEvals = 10010 /\ nChecks = 10000 /\ nFinal = 1 /\ nDumps = 0

====
